---- MODULE Spec2Model ----
(***************************************************************************)
(* Model of DQN/DQN-code/common.py: the episode runner play_one_episode,   *)
(* the demo loop play_n_episodes, the threaded evaluation eval_with_funcs  *)
(* (workers, the two queues, the two StatCounters) and the budget rule of  *)
(* Evaluator._trigger.                                                     *)
(*                                                                         *)
(* Agent 0 is the thread that calls play_n_episodes; agents 1..n_pred are  *)
(* the Worker threads of eval_with_funcs.  The environment and the         *)
(* predictor are collaborators outside the file: every value they return   *)
(* is a nondeterministic choice from a small set.                          *)
(***************************************************************************)
EXTENDS Integers, Sequences, FiniteSets, TLC

\* ------------------------------------------------------------- bounds
MaxPredictors == 2      \* longest predictor list handed to eval_with_funcs
MaxEval == 2            \* largest nr_eval handed to eval_with_funcs
MaxSteps == 2           \* an episode is over after at most this many env steps
MaxEpisodes == 2        \* a worker starts at most this many episodes (keeps the queues finite)
MaxNr == 3              \* largest nr handed to play_n_episodes
MaxBudget == 2200       \* largest episode budget an Evaluator is built with
MaxCpu == 44            \* largest multiprocessing.cpu_count()

\* ------------------------------------------------- program constants
RunTargets == 4         \* names on the left of the assignment in Worker.run
DemoTargets == 7        \* names on the left of the assignment in play_n_episodes
Threshold == 600        \* 10 * 60 seconds: "eval takes too long" above it
EvaluatorProcs == 20    \* cap on NR_PROC in Evaluator._setup_graph
MultithreadProcs == 8   \* cap on NR_PROC in eval_model_multithread

Workers == 1..MaxPredictors
Agents == 0..MaxPredictors
\* what the collaborators may answer: the reward and the distance error of an
\* environment step, and the q-values of a prediction (indexed from 0)
Rewards == {0, 1}
Dists == {0, 1}
QVectors == [{0, 1} -> {0, 1}]

VARIABLES
    pc,         \* pc[a]: where agent a stands in its code
    fr,         \* fr[a]: locals of agent a's play_one_episode call
    env,        \* env[a]: the environment instance agent a drives
    ret,        \* ret[a]: the tuple play_one_episode last returned to agent a
    calls,      \* calls[a]: calls of the underlying predictor made by agent a
    stop_evt,   \* stop_evt[w]: StoppableThread._stop_evt of worker w
    loc,        \* loc[w]: locals of Worker.run (score, ditance_error)
    saw,        \* saw[w]: stopped() has returned True to worker w
    n_done,     \* n_done[w]: play_one_episode calls that returned to worker w
    n_putq,     \* n_putq[w]: scores worker w put on q
    n_putd,     \* n_putd[w]: distances worker w put on q_dist
    err,        \* err[w]: the exception raised inside worker w's run(), and by whom
    nr_eval,    \* argument of eval_with_funcs
    n_pred,     \* len(predictors), the number of Worker threads
    m_pc,       \* where the caller of eval_with_funcs stands
    m_k,        \* loop index of the caller's current for loop
    q,          \* score queue
    q_dist,     \* distance queue
    stat,       \* StatCounter of scores: the values fed so far
    dist_stat,  \* StatCounter of distances: the values fed so far
    joined,     \* joined[w]: join() on worker w has returned
    result,     \* what eval_with_funcs returned
    nr,         \* argument of play_n_episodes
    k,          \* loop index of play_n_episodes
    info_episodes,  \* the list play_n_episodes builds
    eval_episode,   \* Evaluator.eval_episode
    t_eval,         \* wall-clock seconds measured by the last _trigger
    n_before,       \* eval_episode when the last _trigger began (-1: none yet)
    scalars,        \* what the last _trigger put on trainer.monitors
    cpu_count,      \* multiprocessing.cpu_count() of the machine (0: not asked)
    n_funcs,        \* len(Evaluator.pred_funcs) (-1: _setup_graph has not run)
    entry           \* the function that called eval_with_funcs

agentVars == <<pc, fr, env, ret, calls>>
workerVars == <<stop_evt, loc, saw, n_done, n_putq, n_putd, err>>
mainVars == <<nr_eval, n_pred, m_pc, m_k, q, q_dist, stat, dist_stat, joined, result>>
demoVars == <<nr, k, info_episodes>>
trigVars == <<eval_episode, t_eval, n_before, scalars, cpu_count, n_funcs, entry>>
vars == <<agentVars, workerVars, mainVars, demoVars, trigVars>>

\* ------------------------------------------------------------ helpers
RECURSIVE SumSeq(_)
SumSeq(s) == IF s = <<>> THEN 0 ELSE Head(s) + SumSeq(Tail(s))

RECURSIVE MaxSeq(_)
MaxSeq(s) == IF Len(s) = 1 THEN Head(s)
             ELSE IF Head(s) >= MaxSeq(Tail(s)) THEN Head(s) ELSE MaxSeq(Tail(s))

\* q_values.argmax(): the first index holding the largest value
ArgMax(qv) ==
    CHOOSE i \in DOMAIN qv :
        /\ \A j \in DOMAIN qv : qv[j] <= qv[i]
        /\ \A j \in DOMAIN qv : j < i => qv[j] < qv[i]

\* the info dictionary env.step returns after its s-th step
StepInfo(s, d) ==
    [filename |-> "img", distError |-> d, loc |-> <<s, s, s>>,
     target_loc |-> <<MaxSteps, MaxSteps, MaxSteps>>, spacing |-> <<1, 1, 1>>,
     start_pos |-> <<0, 0, 0>>]

NoInfo == StepInfo(0, 0)

\* the tuple play_one_episode returns
EpisodeResult(sum_r, info) ==
    <<sum_r, info.filename, info.distError, info.loc, info.target_loc,
      info.spacing, info.start_pos>>

\* a = b, c, ...: a tuple assigns to n targets only when it has n elements;
\* otherwise the assignment raises ValueError
UnpackOK(n, tup) == Len(tup) = n

\* Caught with a handler written except ValueError
CaughtValueError(exc) == exc = "ValueError"

\* except RuntimeError: the handler of Worker.run
Caught(exc) == exc = "RuntimeError"

\* locals of a play_one_episode call that has just been entered
FreshFrame == [sum_r |-> 0, act |-> 0, q_values |-> <<>>, resets |-> 0]
\* an environment instance: steps, over, total and info describe the episode
\* since its last reset; made (times the factory built it), episodes (resets),
\* late (stepped after done), greedy (every action it was given had the
\* largest q-value) and users (the threads that reset or stepped it) record
\* what was done to it.  env[i] is the instance the factory call of thread i
\* builds.
FreshEnv == [made |-> 0, episodes |-> 0, steps |-> 0, over |-> FALSE, total |-> 0,
             info |-> NoInfo, late |-> FALSE, greedy |-> TRUE, users |-> {}]
NoLocals == [score |-> 0, ditance_error |-> 0]
NoErr == [cls |-> "", by |-> ""]
\* exceptions the predictor or the environment may raise: one that
\* except RuntimeError matches and one that it does not
CollabErrors == {"RuntimeError", "Exception"}

Threads == 1..n_pred
Alive(w) == pc[w] \notin {"created", "exited", "died", "idle"}
Terminated(w) == pc[w] \in {"exited", "died"}

\* numbers of the returned tuple are kept as fractions num/den
Num(n) == [num |-> n, den |-> 1]
NumEq(a, b) == a.num * b.den = b.num * a.den

\* StatCounter.average: asserts that a value was fed, then the mean
Average(values) == [num |-> SumSeq(values), den |-> Len(values)]
\* StatCounter.max: asserts that a value was fed, then the largest
Maximum(values) == Num(MaxSeq(values))

ZeroTuple == <<Num(0), Num(0), Num(0), Num(0)>>

\* ---------------------------------------------------- play_one_episode
\* where play_one_episode returns to
ReturnPoint(a) == IF a = 0 THEN "row" ELSE "unpack"

\* PlayerOf with one environment built ahead and handed to every worker
PlayerOfShared(a) == IF a = 0 THEN 0 ELSE 1

\* the instance agent a's play_one_episode is given: the local player of
\* Worker.run, bound to what the thread's own factory call returned; the
\* player argument of play_n_episodes
PlayerOf(a) == a

\* ob = env.reset(); sum_r = 0
PlayReset(a) ==
    /\ pc[a] = "reset"
    /\ env' = [env EXCEPT ![PlayerOf(a)] = [@ EXCEPT !.steps = 0, !.over = FALSE,
                                         !.total = 0, !.info = NoInfo,
                                         !.episodes = @ + 1,
                                         !.users = @ \cup {a}]]
    /\ fr' = [fr EXCEPT ![a] = [@ EXCEPT !.sum_r = 0, !.resets = @ + 1]]
    /\ pc' = [pc EXCEPT ![a] = "predict"]
    /\ UNCHANGED <<ret, calls>>

\* predict(ob) once the predictor has answered qv: act = q_values.argmax()
PredictCall(a, qv) ==
    /\ pc[a] = "predict"
    /\ fr' = [fr EXCEPT ![a] = [@ EXCEPT !.q_values = qv, !.act = ArgMax(qv)]]
    /\ calls' = [calls EXCEPT ![a] = @ + 1]
    /\ pc' = [pc EXCEPT ![a] = "step"]
    /\ UNCHANGED <<env, ret>>

\* PlayStep with the test of isOver moved before sum_r += r
PlayStepDropsLast(a) ==
    /\ pc[a] = "step"
    /\ \E r \in Rewards, d \in Dists, over \in BOOLEAN :
         LET s == env[a].steps + 1
             isOver == over \/ s >= MaxSteps
             info == StepInfo(s, d)
             sum_r == IF isOver THEN fr[a].sum_r ELSE fr[a].sum_r + r
         IN /\ env' = [env EXCEPT ![a] = [@ EXCEPT !.steps = s, !.over = isOver,
                                                !.total = @ + r, !.info = info,
                                                !.late = @ \/ env[a].over]]
            /\ fr' = [fr EXCEPT ![a] = [@ EXCEPT !.sum_r = sum_r, !.act = 0,
                                                   !.q_values = <<>>]]
            /\ IF isOver
               THEN /\ ret' = [ret EXCEPT ![a] = EpisodeResult(sum_r, info)]
                    /\ pc' = [pc EXCEPT ![a] = ReturnPoint(a)]
               ELSE /\ pc' = [pc EXCEPT ![a] = "predict"]
                    /\ UNCHANGED ret
    /\ UNCHANGED calls

\* ob, r, isOver, info = env.step(act, q_values); sum_r += r; if isOver: return
\* (act and q_values are read by this call only and are dropped after it)
PlayStep(a) ==
    /\ pc[a] = "step"
    /\ \E r \in Rewards, d \in Dists, over \in BOOLEAN :
         LET e == env[PlayerOf(a)]
             s == e.steps + 1
             isOver == over \/ s >= MaxSteps
             info == StepInfo(s, d)
             sum_r == fr[a].sum_r + r
         IN /\ env' = [env EXCEPT ![PlayerOf(a)] = [@ EXCEPT !.steps = s, !.over = isOver,
                                                !.total = @ + r, !.info = info,
                                                !.late = @ \/ e.over,
                                                !.users = @ \cup {a},
                                                !.greedy = @ /\ \A j \in DOMAIN fr[a].q_values :
                                                    fr[a].q_values[j] <= fr[a].q_values[fr[a].act]]]
            /\ fr' = [fr EXCEPT ![a] = [@ EXCEPT !.sum_r = sum_r, !.act = 0,
                                                   !.q_values = <<>>]]
            /\ IF isOver
               THEN /\ ret' = [ret EXCEPT ![a] = EpisodeResult(sum_r, info)]
                    /\ pc' = [pc EXCEPT ![a] = ReturnPoint(a)]
               ELSE /\ pc' = [pc EXCEPT ![a] = "predict"]
                    /\ UNCHANGED ret
    /\ UNCHANGED calls

\* ------------------------------------------------------ Worker threads
\* an exception leaves Worker.run: caught by except RuntimeError (return),
\* or uncaught, which ends the thread
\* the thread ends and the locals of run() go with it
ThreadEnds(w, how) ==
    /\ pc' = [pc EXCEPT ![w] = how]
    /\ fr' = [fr EXCEPT ![w] = FreshFrame]
    /\ env' = [env EXCEPT ![w] = [FreshEnv EXCEPT !.made = env[w].made,
                                                  !.users = env[w].users]]
    /\ ret' = [ret EXCEPT ![w] = <<>>]
    /\ loc' = [loc EXCEPT ![w] = NoLocals]

\* WorkerRaise with a handler that tries the failed call again instead of returning
WorkerRaiseRetries(w, exc) ==
    IF Caught(exc)
    THEN UNCHANGED <<pc, fr, env, ret, loc>>
    ELSE ThreadEnds(w, "died")

WorkerRaise(w, exc) ==
    ThreadEnds(w, IF Caught(exc) THEN "exited" ELSE "died")

\* an exception of class exc, raised by the code named by, leaves the try
\* block of Worker.run
Raises(w, exc, by) ==
    /\ WorkerRaise(w, exc)
    /\ err' = [err EXCEPT ![w] = [cls |-> exc, by |-> by]]

\* a call of the environment or of the underlying predictor raises instead
\* of returning
CollabRaises(w) ==
    /\ \E exc \in CollabErrors : Raises(w, exc, "collaborator")
    /\ UNCHANGED <<calls, stop_evt, saw, n_done, n_putq, n_putd, mainVars,
                   demoVars, trigVars>>

\* run(): with self.default_sess(): player = get_player_fn(...)
WorkerRun(w) ==
    /\ pc[w] = "run"
    /\ env' = [env EXCEPT ![w] = [FreshEnv EXCEPT !.made = env[w].made + 1,
                                                  !.users = env[w].users]]
    /\ pc' = [pc EXCEPT ![w] = "while"]
    /\ UNCHANGED <<fr, ret, calls, workerVars, mainVars, demoVars, trigVars>>

\* while not self.stopped(): enter play_one_episode, or leave run()
WorkerWhile(w) ==
    /\ pc[w] = "while"
    /\ IF stop_evt[w]
       THEN /\ saw' = [saw EXCEPT ![w] = TRUE]
            /\ ThreadEnds(w, "exited")
       ELSE /\ n_done[w] < MaxEpisodes
            /\ fr' = [fr EXCEPT ![w] = FreshFrame]
            /\ pc' = [pc EXCEPT ![w] = "reset"]
            /\ UNCHANGED <<env, ret, loc, saw>>
    /\ UNCHANGED <<calls, stop_evt, n_done, n_putq, n_putd, err,
                   mainVars, demoVars, trigVars>>

WorkerReset(w) ==
    /\ w \in Workers
    /\ pc[w] = "reset"
    /\ \/ /\ PlayReset(w)
          /\ UNCHANGED <<workerVars, mainVars, demoVars, trigVars>>
       \/ CollabRaises(w)

\* WorkerPredict with a func that sees the stop flag and calls self._func anyway
WorkerPredictNoRaise(w) ==
    /\ pc[w] = "predict"
    /\ saw' = [saw EXCEPT ![w] = @ \/ stop_evt[w]]
    /\ \E qv \in QVectors : PredictCall(w, qv)
    /\ UNCHANGED <<loc, stop_evt, n_done, n_putq, n_putd, err, mainVars, demoVars,
                   trigVars>>

\* Worker.func: raise RuntimeError("stopped!") when stopped, else self._func
WorkerPredict(w) ==
    /\ pc[w] = "predict"
    /\ IF stop_evt[w]
       THEN /\ saw' = [saw EXCEPT ![w] = TRUE]
            /\ Raises(w, "RuntimeError", "func")
            /\ UNCHANGED <<calls, stop_evt, n_done, n_putq, n_putd, mainVars,
                           demoVars, trigVars>>
       ELSE \/ /\ \E qv \in QVectors : PredictCall(w, qv)
               /\ UNCHANGED <<workerVars, mainVars, demoVars, trigVars>>
            \/ CollabRaises(w)

WorkerStep(w) ==
    /\ w \in Workers
    /\ pc[w] = "step"
    /\ \/ /\ PlayStep(w)
          /\ n_done' = [n_done EXCEPT ![w] = IF pc'[w] = "unpack" THEN @ + 1 ELSE @]
          /\ UNCHANGED <<stop_evt, loc, saw, n_putq, n_putd, err, mainVars, demoVars,
                         trigVars>>
       \/ CollabRaises(w)

\* the statements of run() after play_one_episode has returned:
\*   score, filename, ditance_error, q_values = <the returned tuple>
\*   self.queue_put_stoppable(self.q, score)
\*   self.queue_put_stoppable(self.q_dist, ditance_error)
\* queue_put_stoppable tests stopped() and then puts; the queues are unbounded,
\* so a put never finds the queue full
WorkerDeliver(w) ==
    /\ pc[w] \in {"unpack", "put_q", "put_q_go", "put_dist", "put_dist_go"}
    /\ CASE pc[w] = "unpack" ->
              /\ IF UnpackOK(RunTargets, ret[w])
                 THEN /\ loc' = [loc EXCEPT ![w] = [score |-> ret[w][1],
                                                    ditance_error |-> ret[w][3]]]
                      /\ pc' = [pc EXCEPT ![w] = "put_q"]
                      /\ UNCHANGED <<fr, env, ret>>
                      /\ UNCHANGED err
                 ELSE Raises(w, "ValueError", "run")
              /\ UNCHANGED <<saw, q, q_dist, n_putq, n_putd>>
         [] pc[w] \in {"put_q", "put_dist"} ->
              /\ IF stop_evt[w]
                 THEN /\ saw' = [saw EXCEPT ![w] = TRUE]
                      /\ pc' = [pc EXCEPT ![w] = IF pc[w] = "put_q" THEN "put_dist"
                                                                   ELSE "while"]
                 ELSE /\ pc' = [pc EXCEPT ![w] = IF pc[w] = "put_q" THEN "put_q_go"
                                                                   ELSE "put_dist_go"]
                      /\ UNCHANGED saw
              /\ UNCHANGED <<fr, env, ret, loc, q, q_dist, n_putq, n_putd, err>>
         [] pc[w] = "put_q_go" ->
              /\ q' = Append(q, loc[w].score)
              /\ n_putq' = [n_putq EXCEPT ![w] = @ + 1]
              /\ pc' = [pc EXCEPT ![w] = "put_dist"]
              /\ UNCHANGED <<fr, env, ret, loc, saw, q_dist, n_putd, err>>
         [] pc[w] = "put_dist_go" ->
              /\ q_dist' = Append(q_dist, loc[w].ditance_error)
              /\ n_putd' = [n_putd EXCEPT ![w] = @ + 1]
              /\ pc' = [pc EXCEPT ![w] = "while"]
              /\ UNCHANGED <<fr, env, ret, loc, saw, q, n_putq, err>>
    /\ UNCHANGED <<calls, stop_evt, n_done, nr_eval, n_pred, m_pc, m_k,
                   stat, dist_stat, joined, result, demoVars, trigVars>>

Worker(w) ==
    \/ WorkerRun(w)
    \/ WorkerWhile(w)
    \/ WorkerReset(w)
    \/ WorkerPredict(w)
    \/ WorkerStep(w)
    \/ WorkerDeliver(w)

\* ------------------------------------------- eval_with_funcs, the caller
\* for k in threads: k.start()
MainStart ==
    /\ m_pc = "start"
    /\ IF m_k < n_pred
       THEN /\ pc' = [pc EXCEPT ![m_k + 1] = "run"]
            /\ m_k' = m_k + 1
            /\ UNCHANGED m_pc
       ELSE /\ m_pc' = "collect"
            /\ m_k' = 0
            /\ UNCHANGED pc
    /\ UNCHANGED <<fr, env, ret, calls, workerVars, nr_eval, n_pred, q, q_dist, stat,
                   dist_stat, joined, result, demoVars, trigVars>>

\* MainCollect with a loop that runs nr_eval + 1 times
MainCollectOneMore ==
    /\ m_pc \in {"collect", "get_dist"}
    /\ IF m_pc = "collect"
       THEN IF m_k <= nr_eval
            THEN /\ q # <<>>
                 /\ stat' = Append(stat, Head(q))
                 /\ q' = Tail(q)
                 /\ m_pc' = "get_dist"
                 /\ UNCHANGED <<m_k, q_dist, dist_stat>>
            ELSE /\ m_pc' = "stop"
                 /\ m_k' = 0
                 /\ UNCHANGED <<q, q_dist, stat, dist_stat>>
       ELSE /\ q_dist # <<>>
            /\ dist_stat' = Append(dist_stat, Head(q_dist))
            /\ q_dist' = Tail(q_dist)
            /\ m_k' = m_k + 1
            /\ m_pc' = "collect"
            /\ UNCHANGED <<q, stat>>
    /\ UNCHANGED <<agentVars, workerVars, nr_eval, n_pred, joined, result,
                   demoVars, trigVars>>

\* for _ in range(nr_eval): r = q.get(); stat.feed(r);
\*                          dist = q_dist.get(); dist_stat.feed(dist)
\* get() blocks while the queue is empty
MainCollect ==
    /\ m_pc \in {"collect", "get_dist"}
    /\ IF m_pc = "collect"
       THEN IF m_k < nr_eval
            THEN /\ q # <<>>
                 /\ stat' = Append(stat, Head(q))
                 /\ q' = Tail(q)
                 /\ m_pc' = "get_dist"
                 /\ UNCHANGED <<m_k, q_dist, dist_stat>>
            ELSE /\ m_pc' = "stop"
                 /\ m_k' = 0
                 /\ UNCHANGED <<q, q_dist, stat, dist_stat>>
       ELSE /\ q_dist # <<>>
            /\ dist_stat' = Append(dist_stat, Head(q_dist))
            /\ q_dist' = Tail(q_dist)
            /\ m_k' = m_k + 1
            /\ m_pc' = "collect"
            /\ UNCHANGED <<q, stat>>
    /\ UNCHANGED <<agentVars, workerVars, nr_eval, n_pred, joined, result,
                   demoVars, trigVars>>

\* MainStop with a loop that leaves after the first stop()
MainStopFirstOnly ==
    /\ m_pc = "stop"
    /\ IF m_k < n_pred /\ m_k < 1
       THEN /\ stop_evt' = [stop_evt EXCEPT ![m_k + 1] = TRUE]
            /\ m_k' = m_k + 1
            /\ UNCHANGED m_pc
       ELSE /\ m_pc' = "join"
            /\ m_k' = 0
            /\ UNCHANGED stop_evt
    /\ UNCHANGED <<agentVars, loc, saw, n_done, n_putq, n_putd, err, nr_eval, n_pred,
                   q, q_dist, stat, dist_stat, joined, result, demoVars, trigVars>>

\* for k in threads: k.stop()
MainStop ==
    /\ m_pc = "stop"
    /\ IF m_k < n_pred
       THEN /\ stop_evt' = [stop_evt EXCEPT ![m_k + 1] = TRUE]
            /\ m_k' = m_k + 1
            /\ UNCHANGED m_pc
       ELSE /\ m_pc' = "join"
            /\ m_k' = 0
            /\ UNCHANGED stop_evt
    /\ UNCHANGED <<agentVars, loc, saw, n_done, n_putq, n_putd, err, nr_eval, n_pred,
                   q, q_dist, stat, dist_stat, joined, result, demoVars, trigVars>>

\* for k in threads: k.join()     (join blocks until the thread has ended)
MainJoin ==
    /\ m_pc = "join"
    /\ IF m_k < n_pred
       THEN /\ Terminated(m_k + 1)
            /\ joined' = [joined EXCEPT ![m_k + 1] = TRUE]
            /\ m_k' = m_k + 1
            /\ UNCHANGED m_pc
       ELSE /\ m_pc' = "drain_q"
            /\ UNCHANGED <<m_k, joined>>
    /\ UNCHANGED <<agentVars, workerVars, nr_eval, n_pred, q, q_dist, stat, dist_stat,
                   result, demoVars, trigVars>>

\* while q.qsize(): r = q.get(); stat.feed(r)
MainDrainScores ==
    /\ m_pc = "drain_q"
    /\ IF Len(q) > 0
       THEN /\ stat' = Append(stat, Head(q))
            /\ q' = Tail(q)
            /\ UNCHANGED m_pc
       ELSE /\ m_pc' = "drain_dist"
            /\ UNCHANGED <<q, stat>>
    /\ UNCHANGED <<agentVars, workerVars, nr_eval, n_pred, m_k, q_dist, dist_stat,
                   joined, result, demoVars, trigVars>>

\* while q_dist.qsize(): dist = q_dist.get(); dist_stat.feed(dist)
MainDrainDists ==
    /\ m_pc = "drain_dist"
    /\ IF Len(q_dist) > 0
       THEN /\ dist_stat' = Append(dist_stat, Head(q_dist))
            /\ q_dist' = Tail(q_dist)
            /\ UNCHANGED m_pc
       ELSE /\ m_pc' = "return"
            /\ UNCHANGED <<q_dist, dist_stat>>
    /\ UNCHANGED <<agentVars, workerVars, nr_eval, n_pred, m_k, q, stat,
                   joined, result, demoVars, trigVars>>

\* MainReturn with the test stat.count >= 0
MainReturnAlwaysStats ==
    /\ m_pc = "return"
    /\ IF Len(stat) > 0 /\ Len(dist_stat) > 0
       THEN /\ result' = <<Average(stat), Maximum(stat),
                           Average(dist_stat), Maximum(dist_stat)>>
            /\ m_pc' = "done"
       ELSE /\ m_pc' = "raised"
            /\ UNCHANGED result
    /\ UNCHANGED <<agentVars, workerVars, nr_eval, n_pred, m_k, q, q_dist, stat,
                   dist_stat, joined, demoVars, trigVars>>

\* if stat.count > 0: return (stat.average, stat.max, dist_stat.average,
\* dist_stat.max); return (0, 0, 0, 0).  average and max of an empty
\* StatCounter fail their assertion.
MainReturn ==
    /\ m_pc = "return"
    /\ IF Len(stat) > 0
       THEN IF Len(dist_stat) > 0
            THEN /\ result' = <<Average(stat), Maximum(stat),
                                Average(dist_stat), Maximum(dist_stat)>>
                 /\ m_pc' = "done"
            ELSE /\ m_pc' = "raised"
                 /\ UNCHANGED result
       ELSE /\ result' = ZeroTuple
            /\ m_pc' = "done"
    /\ UNCHANGED <<agentVars, workerVars, nr_eval, n_pred, m_k, q, q_dist, stat,
                   dist_stat, joined, demoVars, trigVars>>

Main ==
    \/ MainStart
    \/ MainCollect
    \/ MainStop
    \/ MainJoin
    \/ MainDrainScores
    \/ MainDrainDists
    \/ MainReturn

\* ------------------------------------------------------ play_n_episodes
HeaderRow ==
    <<"idx_num", "filename", "score", "distance_error",
      "final_coordinates_x", "final_coordinates_y", "final_coordinates_z",
      "target_x", "target_y", "target_z", "spacing_x", "spacing_y", "spacing_z">>

\* ResultRow with the loop index k in place of k + 1
ResultRowZeroBased(i, tup) ==
    <<i, tup[2], tup[1], tup[3], tup[4][1], tup[4][2], tup[4][3],
      tup[5][1], tup[5][2], tup[5][3], tup[6][1], tup[6][2], tup[6][3]>>

\* [k + 1, filename, score, ditance_error, loc[0..2], target_loc[0..2],
\*  spacing[0..2]] from the tuple play_one_episode returned
ResultRow(i, tup) ==
    <<i + 1, tup[2], tup[1], tup[3], tup[4][1], tup[4][2], tup[4][3],
      tup[5][1], tup[5][2], tup[5][3], tup[6][1], tup[6][2], tup[6][3]>>

\* for k in range(nr): enter play_one_episode; after the loop, return
DemoFor ==
    /\ pc[0] = "for"
    /\ IF k < nr
       THEN /\ fr' = [fr EXCEPT ![0] = FreshFrame]
            /\ pc' = [pc EXCEPT ![0] = "reset"]
       ELSE /\ pc' = [pc EXCEPT ![0] = "done"]
            /\ UNCHANGED fr
    /\ UNCHANGED <<env, ret, calls, workerVars, mainVars, demoVars, trigVars>>

DemoReset ==
    /\ PlayReset(0)
    /\ UNCHANGED <<workerVars, mainVars, demoVars, trigVars>>

\* predfunc is called directly
DemoPredict ==
    /\ \E qv \in QVectors : PredictCall(0, qv)
    /\ UNCHANGED <<workerVars, mainVars, demoVars, trigVars>>

DemoStep ==
    /\ PlayStep(0)
    /\ UNCHANGED <<workerVars, mainVars, demoVars, trigVars>>

\* score, filename, ditance_error, loc, target_loc, spacing, start_pos = ...
\* info_episodes.append([k + 1, ...])
DemoRow ==
    /\ pc[0] = "row"
    /\ IF UnpackOK(DemoTargets, ret[0])
       THEN /\ info_episodes' = Append(info_episodes, ResultRow(k, ret[0]))
            /\ k' = k + 1
            /\ pc' = [pc EXCEPT ![0] = "for"]
       ELSE /\ pc' = [pc EXCEPT ![0] = "raised"]
            /\ UNCHANGED <<k, info_episodes>>
    /\ UNCHANGED <<fr, env, ret, calls, workerVars, mainVars, nr, trigVars>>

\* ---------------------------------------------------- Evaluator._trigger
\* the double nearest to 0.94 is Mant / 2^53, Mant written in base 2^15
Limb == 32768
Mant0 == 11796
Mant1 == 17039
Mant2 == 20971
Mant3 == 240

RECURSIVE BitLen(_)
BitLen(i) == IF i = 0 THEN 0 ELSE 1 + BitLen(i \div 2)

RECURSIVE Pow2(_)
Pow2(e) == IF e = 0 THEN 1 ELSE 2 * Pow2(e - 1)

\* IntTimes094 with round() in place of int()
IntTimes094Rounds(n) == (94 * n + 50) \div 100

\* int(n * 0.94) for an int n in 0..Limb-1: the exact product n * Mant / 2^53
\* is whole + frac / 2^53; the double product keeps 53 significant bits of it,
\* round-half-even, so it reaches whole + 1 when every kept bit of the
\* fraction is 1 and the dropped bits round up; int() then truncates
IntTimes094(n) ==
    LET p0 == n * Mant0
        p1 == n * Mant1 + (p0 \div Limb)
        p2 == n * Mant2 + (p1 \div Limb)
        hi == n * Mant3 + (p2 \div Limb)
        whole == hi \div 256
        drop == BitLen(whole)
        low == p0 % Limb
        keptOnes == /\ hi % 256 = 255
                    /\ p2 % Limb = Limb - 1
                    /\ p1 % Limb = Limb - 1
                    /\ low \div Pow2(drop) = Pow2(15 - drop) - 1
        roundsUp == (low % Pow2(drop)) >= Pow2(drop - 1)
    IN IF whole >= 1 /\ keptOnes /\ roundsUp THEN whole + 1 ELSE whole

\* if t > 10 * 60: self.eval_episode = int(self.eval_episode * 0.94)
NextBudget(n, t) == IF t > Threshold THEN IntTimes094(n) ELSE n

\* wall-clock times around the threshold
Times == {Threshold - 1, Threshold, Threshold + 1}

\* what eval_with_funcs may hand back to _trigger
EvalOutcomes == {ZeroTuple, <<Num(1), Num(1), Num(1), Num(1)>>}

\* _trigger: the call of eval_with_funcs is taken by what it hands back, a
\* tuple after t seconds; then the budget rule and the four put_scalar calls
Trigger ==
    /\ \E t \in Times, r \in EvalOutcomes :
         /\ t_eval' = t
         /\ n_before' = eval_episode
         /\ eval_episode' = NextBudget(eval_episode, t)
         /\ scalars' = [mean_score |-> r[1], max_score |-> r[2],
                        mean_distance |-> r[3], max_distance |-> r[4]]
    /\ UNCHANGED <<agentVars, workerVars, mainVars, demoVars, cpu_count, n_funcs, entry>>

\* ------------------------------------------------------- specification
IdleDemo ==
    /\ nr = 0
    /\ k = 0
    /\ info_episodes = <<>>

\* no Evaluator and no eval_model_multithread call: eval_with_funcs and
\* play_n_episodes are called directly
IdleProcs ==
    /\ cpu_count = 0
    /\ n_funcs = -1
    /\ entry = ""

IdleTrigger ==
    /\ eval_episode = 0
    /\ t_eval = 0
    /\ n_before = -1
    /\ scalars = <<>>
    /\ IdleProcs

\* eval_with_funcs(predictors, nr_eval, get_player_fn) has built its threads
Init ==
    /\ nr_eval \in 0..MaxEval
    /\ n_pred \in 0..MaxPredictors
    /\ pc = [a \in Agents |-> IF a \in 1..n_pred THEN "created" ELSE "idle"]
    /\ fr = [a \in Agents |-> FreshFrame]
    /\ env = [a \in Agents |-> FreshEnv]
    /\ ret = [a \in Agents |-> <<>>]
    /\ calls = [a \in Agents |-> 0]
    /\ stop_evt = [w \in Workers |-> FALSE]
    /\ loc = [w \in Workers |-> NoLocals]
    /\ saw = [w \in Workers |-> FALSE]
    /\ n_done = [w \in Workers |-> 0]
    /\ n_putq = [w \in Workers |-> 0]
    /\ n_putd = [w \in Workers |-> 0]
    /\ err = [w \in Workers |-> NoErr]
    /\ m_pc = "start"
    /\ m_k = 0
    /\ q = <<>>
    /\ q_dist = <<>>
    /\ stat = <<>>
    /\ dist_stat = <<>>
    /\ joined = [w \in Workers |-> FALSE]
    /\ result = <<>>
    /\ IdleDemo
    /\ IdleTrigger

Next ==
    \/ Main
    \/ \E w \in Workers : Worker(w)

Spec == Init /\ [][Next]_vars

\* threads are scheduled by the operating system: a thread that can take a
\* step eventually takes it
FairSpec ==
    /\ Spec
    /\ WF_vars(Main)
    /\ \A w \in Workers : WF_vars(Worker(w))

\* eval_with_funcs is not running
IdleEval ==
    /\ nr_eval = 0
    /\ n_pred = 0
    /\ stop_evt = [w \in Workers |-> FALSE]
    /\ loc = [w \in Workers |-> NoLocals]
    /\ saw = [w \in Workers |-> FALSE]
    /\ n_done = [w \in Workers |-> 0]
    /\ n_putq = [w \in Workers |-> 0]
    /\ n_putd = [w \in Workers |-> 0]
    /\ err = [w \in Workers |-> NoErr]
    /\ m_pc = "idle"
    /\ m_k = 0
    /\ q = <<>>
    /\ q_dist = <<>>
    /\ stat = <<>>
    /\ dist_stat = <<>>
    /\ joined = [w \in Workers |-> FALSE]
    /\ result = <<>>
    /\ fr = [a \in Agents |-> FreshFrame]
    /\ ret = [a \in Agents |-> <<>>]
    /\ calls = [a \in Agents |-> 0]

\* play_n_episodes(player, predfunc, nr) has been called
InitPlay ==
    /\ IdleEval
    /\ IdleTrigger
    /\ nr \in 0..MaxNr
    /\ k = 0
    /\ info_episodes = <<HeaderRow>>
    /\ pc = [a \in Agents |-> IF a = 0 THEN "for" ELSE "idle"]
    /\ env = [a \in Agents |-> IF a = 0 THEN [FreshEnv EXCEPT !.made = 1] ELSE FreshEnv]

NextPlay ==
    \/ DemoFor
    \/ DemoReset
    \/ DemoPredict
    \/ DemoStep
    \/ DemoRow

SpecPlay == InitPlay /\ [][NextPlay]_vars

\* an Evaluator built with nr_eval = eval_episode
InitTrigger ==
    /\ IdleEval
    /\ IdleDemo
    /\ pc = [a \in Agents |-> "idle"]
    /\ env = [a \in Agents |-> FreshEnv]
    /\ eval_episode \in 0..MaxBudget
    /\ t_eval = 0
    /\ n_before = -1
    /\ scalars = <<>>
    /\ IdleProcs

NextTrigger == Trigger

SpecTrigger == InitTrigger /\ [][NextTrigger]_vars

\* the trainer goes on calling _trigger, once per period
FairSpecTrigger == SpecTrigger /\ WF_vars(Trigger)

\* ------------------------------------------- how many threads are built
\* NrProc without the halving
NrProcNoHalf(cpu, cap) == IF cpu < cap THEN cpu ELSE cap

\* NR_PROC = min(multiprocessing.cpu_count() // 2, cap)
NrProc(cpu, cap) == IF cpu \div 2 < cap THEN cpu \div 2 ELSE cap

\* eval_with_funcs is entered with a list of n predictors: the queues and
\* threads = [Worker(f, q, q_dist) for f in predictors]
BuildThreads(n, nreval) ==
    /\ m_pc = "idle"
    /\ n_pred' = n
    /\ nr_eval' = nreval
    /\ pc' = [a \in DOMAIN pc |-> IF a \in 1..n THEN "created" ELSE "idle"]
    /\ m_pc' = "start"
    /\ UNCHANGED <<fr, env, ret, calls, workerVars, m_k, q, q_dist, stat, dist_stat,
                   joined, result, demoVars, eval_episode, t_eval, n_before, scalars,
                   cpu_count, n_funcs, entry>>

\* Evaluator._setup_graph: self.pred_funcs = [get_predictor(...)] * NR_PROC
SetupGraph ==
    /\ entry = "Evaluator"
    /\ n_funcs = -1
    /\ n_funcs' = NrProc(cpu_count, EvaluatorProcs)
    /\ UNCHANGED <<agentVars, workerVars, mainVars, demoVars, eval_episode, t_eval,
                   n_before, scalars, cpu_count, entry>>

\* Evaluator._trigger up to its call
\* eval_with_funcs(self.pred_funcs, self.eval_episode, self.get_player_fn)
TriggerCalls ==
    /\ entry = "Evaluator"
    /\ n_funcs >= 0
    /\ BuildThreads(n_funcs, eval_episode)

\* eval_model_multithread: eval_with_funcs([pred] * NR_PROC, nr_eval, ...)
EvalModelMultithread ==
    /\ entry = "eval_model_multithread"
    /\ \E n \in 0..MaxEval : BuildThreads(NrProc(cpu_count, MultithreadProcs), n)

\* an Evaluator has been built, or eval_model_multithread is about to be
\* called, on a machine with cpu_count processors
InitProcs ==
    /\ IdleEval
    /\ IdleDemo
    /\ pc = [a \in 0..EvaluatorProcs |-> "idle"]
    /\ env = [a \in Agents |-> FreshEnv]
    /\ eval_episode \in 0..MaxEval
    /\ t_eval = 0
    /\ n_before = -1
    /\ scalars = <<>>
    /\ cpu_count \in 1..MaxCpu
    /\ n_funcs = -1
    /\ entry \in {"Evaluator", "eval_model_multithread"}

NextProcs ==
    \/ SetupGraph
    \/ TriggerCalls
    \/ EvalModelMultithread
    \/ MainStart

SpecProcs == InitProcs /\ [][NextProcs]_vars

\* ---------------------------------------------------------------- claims
Returned == m_pc = "done"

\* C1: eval_with_funcs called with nr_eval = 0 does not block and returns
\* (0,0,0,0): for every number of predictors and every fair interleaving of
\* the workers with the caller, the call reaches its return and the tuple
\* returned is all zero.
C1_ZeroEvalReturnsZeros ==
    [](nr_eval = 0 => <>(Returned /\ result = ZeroTuple))

\* a call with nr_eval = 0 has returned although a worker had finished an episode
C1_Witness ==
    /\ nr_eval = 0
    /\ n_pred = MaxPredictors
    /\ Returned
    /\ result = ZeroTuple
    /\ \E w \in Workers : n_done[w] > 0

AfterCollect == {"stop", "join", "drain_q", "drain_dist", "return", "done", "raised"}
AfterJoin == {"drain_q", "drain_dist", "return", "done", "raised"}

\* C2: the caller's phases are ordered: no stop() before exactly nr_eval
\* scores and nr_eval distances were dequeued and fed; no join() before
\* stop() was called on every worker; no draining (nor return) before every
\* worker was joined.
C2_PhaseOrder ==
    /\ (\E w \in Workers : stop_evt[w]) => m_pc \in AfterCollect
    /\ m_pc \in {"stop", "join"} => Len(stat) = nr_eval /\ Len(dist_stat) = nr_eval
    /\ m_pc \notin AfterCollect => Len(stat) <= nr_eval /\ Len(dist_stat) <= nr_eval
    /\ (\E w \in Workers : joined[w]) => \A v \in 1..n_pred : stop_evt[v]
    /\ m_pc \in AfterJoin => \A v \in 1..n_pred : joined[v] /\ Terminated(v)

\* the caller has joined the first of several workers, all of them stopped
C2_Witness ==
    /\ m_pc = "join"
    /\ n_pred = MaxPredictors
    /\ m_k = 1
    /\ joined[1]
    /\ ~joined[n_pred]

\* C3: once stop() has been called on all workers, every worker thread
\* ends and every join() returns, whatever the worker was doing when its
\* flag was set (each predictor call and each environment step returns).
C3_StopLeadsToJoined ==
    (m_pc = "join") ~> (\A w \in 1..n_pred : Terminated(w) /\ joined[w])

\* all workers joined, one of them stopped in the middle of an episode
C3_Witness ==
    /\ n_pred = MaxPredictors
    /\ \A w \in 1..n_pred : joined[w]
    /\ \E w \in 1..n_pred : pc[w] = "exited" /\ calls[w] > 0 /\ err[w].by = "func"

\* C4: when eval_with_funcs returns, its result is (mean, max) of the scores
\* fed followed by (mean, max) of the distances fed, mean = sum / count; it
\* is the all-zero tuple when no score was collected, and then the call
\* returns rather than fails.
C4_ResultIsStatistics ==
    /\ Returned /\ Len(stat) > 0 =>
         /\ result[1].num = SumSeq(stat) /\ result[1].den = Len(stat)
         /\ \A i \in 1..Len(stat) : stat[i] <= result[2].num
         /\ \E i \in 1..Len(stat) : stat[i] = result[2].num
         /\ result[3].num = SumSeq(dist_stat) /\ result[3].den = Len(dist_stat)
         /\ \A i \in 1..Len(dist_stat) : dist_stat[i] <= result[4].num
         /\ \E i \in 1..Len(dist_stat) : dist_stat[i] = result[4].num
    /\ Returned => (result = ZeroTuple <=> Len(stat) = 0)
    /\ m_pc = "raised" => Len(stat) > 0

\* the call has returned the zero tuple, no score collected, workers joined
C4_Witness ==
    /\ Returned
    /\ n_pred > 0
    /\ Len(stat) = 0
    /\ result = ZeroTuple

\* C6: for every episode a worker completes while it is not stopped, it
\* puts the episode's score on q and its distance error on q_dist: a worker
\* that is not stopped and stands between two episodes, or has ended, has
\* put one score and one distance per completed episode.
C6_EveryEpisodeDelivered ==
    \A w \in Workers :
        (pc[w] \in {"while", "exited", "died"} /\ ~stop_evt[w]) =>
            (n_putq[w] = n_done[w] /\ n_putd[w] = n_done[w])

C8_RowsNumbered ==
    /\ pc[0] # "raised"
    /\ info_episodes[1] = HeaderRow
    /\ Len(info_episodes) = k + 1
    /\ \A i \in 1..k : info_episodes[i + 1][1] = i
    /\ k <= nr
    /\ env[0].episodes = IF pc[0] \in {"for", "reset", "done"} THEN k ELSE k + 1
    /\ pc[0] = "done" => k = nr

\* play_n_episodes has returned after the largest number of episodes
C8_Witness ==
    /\ pc[0] = "done"
    /\ nr = MaxNr
    /\ Len(info_episodes) = MaxNr + 1
    /\ info_episodes[MaxNr + 1][1] = MaxNr

\* C9: play_one_episode resets the environment once, gives the environment
\* at every step an action whose predicted value is the largest, goes on
\* until the first step that reports done and returns there, never steps
\* after done, and returns the sum of the rewards of all steps taken, the
\* terminal one included, with the info of the terminal step.
C9_EpisodeRun ==
    /\ pc[0] \in {"predict", "step", "row"} => fr[0].resets = 1
    /\ pc[0] \in {"predict", "step"} => ~env[0].over /\ fr[0].sum_r = env[0].total
    /\ pc[0] = "step" =>
         \A j \in DOMAIN fr[0].q_values : fr[0].q_values[j] <= fr[0].q_values[fr[0].act]
    /\ env[0].greedy
    /\ ~env[0].late
    /\ pc[0] = "row" =>
         /\ env[0].over
         /\ ret[0] = <<env[0].total, env[0].info.filename, env[0].info.distError,
                       env[0].info.loc, env[0].info.target_loc, env[0].info.spacing,
                       env[0].info.start_pos>>

\* an episode of the greatest length, every step rewarded, has returned
C9_Witness ==
    /\ pc[0] = "row"
    /\ env[0].steps = MaxSteps
    /\ env[0].total = MaxSteps
    /\ ret[0][1] = env[0].total

\* the lifecycle state of worker w and its place in CREATED < RUNNING <
\* STOPPING < STOPPED
Rank(p, seen) ==
    IF p \in {"created", "idle"} THEN 0
    ELSE IF p \in {"exited", "died"} THEN 3
    ELSE IF seen THEN 2 ELSE 1

\* C10: a worker moves forward only through CREATED, RUNNING, STOPPING,
\* STOPPED and STOPPED is terminal; it starts an episode only after finding
\* the stop flag clear and puts only after finding it clear; once it has
\* seen the stop flag it starts no episode, calls the underlying predictor
\* no more and puts nothing further.
C10_Lifecycle ==
    [][\A w \in Workers :
         /\ Rank(pc'[w], saw'[w]) >= Rank(pc[w], saw[w])
         /\ Terminated(w) => pc'[w] = pc[w]
         /\ (pc[w] = "while" /\ pc'[w] = "reset") => ~stop_evt[w]
         /\ (pc'[w] \in {"put_q_go", "put_dist_go"} /\ pc'[w] # pc[w]) => ~stop_evt[w]
         /\ saw[w] => /\ saw'[w]
                      /\ pc'[w] # "reset"
                      /\ calls'[w] = calls[w]
                      /\ n_putq'[w] = n_putq[w]
                      /\ n_putd'[w] = n_putd[w]]_vars

\* both workers have ended on seeing the stop flag, one of them in an episode
C10_Witness ==
    /\ n_pred = MaxPredictors
    /\ \A w \in 1..n_pred : pc[w] = "exited" /\ saw[w]
    /\ \E w \in 1..n_pred : calls[w] > 0 /\ n_putq[w] = 0

StopCondition == [cls |-> "RuntimeError", by |-> "func"]

\* C11: a worker that finds the stop flag set when its predictor wrapper is
\* called raises the stop condition without calling the underlying
\* predictor; the handler of the run loop catches it and the thread ends
\* cleanly with nothing put on either queue; the step leaves the caller of
\* eval_with_funcs where it was, and the caller goes on to return a tuple.
C11_StopConditionIsSilent ==
    /\ [][\A w \in Workers :
            /\ (pc[w] = "predict" /\ stop_evt[w] /\ pc'[w] # pc[w]) =>
                   /\ err'[w] = StopCondition
                   /\ calls'[w] = calls[w]
            /\ (err'[w] # err[w] /\ err'[w] = StopCondition) =>
                   /\ pc[w] = "predict" /\ stop_evt[w]
                   /\ pc'[w] = "exited"
                   /\ q' = q /\ q_dist' = q_dist
                   /\ n_putq' = n_putq /\ n_putd' = n_putd
                   /\ m_pc' = m_pc /\ result' = result]_vars
    /\ (\E w \in Workers : err[w] = StopCondition) ~> (Returned /\ Len(result) = 4)

\* the call has returned although a worker raised the stop condition in the
\* middle of an episode, whose result was put on no queue
C11_Witness ==
    /\ Returned
    /\ Len(result) = 4
    /\ \E w \in 1..n_pred :
         /\ err[w] = StopCondition
         /\ pc[w] = "exited"
         /\ calls[w] > 0
         /\ n_putq[w] = 0 /\ n_putd[w] = 0

\* C12: an exception of the predictor or of the environment raised during
\* an episode is never caught by the worker: the thread it was raised in has
\* ended uncaught, that thread has put no more results than the episodes it
\* completed, and the caller of eval_with_funcs has not failed.
C12_CollaboratorErrorUncaught ==
    \A w \in Workers :
        err[w].by = "collaborator" =>
            /\ pc[w] = "died"
            /\ n_putq[w] <= n_done[w] /\ n_putd[w] <= n_done[w]
            /\ m_pc # "raised"

\* C13: every worker thread calls the environment factory exactly once, as
\* a step of its own before its first episode, and never again; the instance
\* it built is reset and stepped by that worker alone, a worker in an
\* episode drives its own instance, and the thread of the caller builds and
\* drives none.
C13_OwnEnvironment ==
    /\ [](\A w \in Workers :
            /\ env[w].made = IF pc[w] \in {"idle", "created", "run"} THEN 0 ELSE 1
            /\ env[w].users \subseteq {w}
            /\ pc[w] \in {"predict", "step", "unpack"} => env[w].users = {w})
    /\ [](env[0] = FreshEnv)
    /\ [][\A w \in Workers :
            env'[w].made # env[w].made => pc[w] = "run" /\ pc'[w] = "while"]_vars

\* every worker of the longest predictor list is in an episode at the same
\* time, each on the instance it built
C13_Witness ==
    /\ n_pred = MaxPredictors
    /\ \A w \in 1..n_pred :
         /\ pc[w] = "step"
         /\ env[w].made = 1
         /\ env[w].users = {w}
         /\ env[w].steps > 0

\* C14: eval_with_funcs builds and starts one thread per element of the
\* predictor list, no more and no fewer; the list an Evaluator hands over
\* has min(floor(cpu_count / 2), 20) elements, at most 20 and at most half
\* the processors, and the list of eval_model_multithread has
\* min(floor(cpu_count / 2), 8).
C14_ThreadCount ==
    /\ n_funcs >= 0 =>
         /\ n_funcs <= 20
         /\ 2 * n_funcs <= cpu_count
         /\ n_funcs = 20 \/ cpu_count <= 2 * n_funcs + 1
    /\ m_pc # "idle" =>
         /\ entry = "Evaluator" => n_pred = n_funcs
         /\ entry = "eval_model_multithread" =>
              /\ n_pred <= 8
              /\ 2 * n_pred <= cpu_count
              /\ n_pred = 8 \/ cpu_count <= 2 * n_pred + 1
         /\ {a \in DOMAIN pc : pc[a] # "idle"} = 1..n_pred
         /\ {a \in DOMAIN pc : pc[a] = "run"} =
                1..(IF m_pc = "start" THEN m_k ELSE n_pred)

\* on the machine with the most processors the trigger of an Evaluator has
\* started all its threads, as many as the cap allows
C14_Witness ==
    /\ entry = "Evaluator"
    /\ cpu_count = MaxCpu
    /\ m_pc = "collect"
    /\ n_pred = 20
    /\ \A a \in 1..20 : pc[a] = "run"

\* C15: in a call with nr_eval > 0 and at least one predictor in which
\* neither the predictor nor the environment has raised, the caller is never
\* blocked in a get on an empty queue while every worker thread has ended
\* (a state it cannot leave, so the call would never return).
C15_CallerNeverStuck ==
    (/\ nr_eval > 0
     /\ n_pred > 0
     /\ \A w \in Workers : err[w].by # "collaborator") =>
        ~(/\ \A w \in 1..n_pred : Terminated(w)
          /\ \/ m_pc = "collect" /\ m_k < nr_eval /\ q = <<>>
             \/ m_pc = "get_dist" /\ q_dist = <<>>)

====
